---- MODULE Spec2Model ----
(***************************************************************************)
(* Model of the broadcast gateway (gateway.py): the UDPToTCPGateway        *)
(* lifecycle (start / stop), its connection task _maintain_tcp_connection, *)
(* the datagram callback handle_udp_message with its drain tasks, the       *)
(* client helper read_length_prefixed_message, and the inbound fan-out     *)
(* server of the specification (section 4.4).                              *)
(*                                                                         *)
(* asyncio is single threaded and cooperative: every action below is the   *)
(* code a coroutine runs between two suspension points (awaits).           *)
(***************************************************************************)
EXTENDS Integers, Sequences, FiniteSets, TLC

\* ------------------------------------------------------------------ bounds
\* TCP connections open_connection may hand out in one run.
MaxConns == 2
\* Datagrams the UDP endpoint delivers in one run.
MaxDatagrams == 2
\* Invocations of stop() in one run (signal handler tasks, main's finally).
MaxStops == 2
\* Whole frames a peer stream holds before its (possibly cut) last frame.
MaxFrames == 2
\* Chunks of data the TCP endpoint sends to the gateway on one connection.
MaxPeerData == 1
\* TCP clients the inbound fan-out server accepts in one run.
MaxClients == 2

\* Config.reconnect_delay (its default, in seconds).
reconnect_delay == 5

None == 0
ConnIds == 1..MaxConns
StopIds == 1..MaxStops
ClientIds == 1..MaxClients

\* ------------------------------------------------------------ frame codec
\* A packing with the least significant byte first.
PackBE32LittleEndianMutant(n) ==
    << n % 256, (n \div 256) % 256, (n \div 65536) % 256, (n \div 16777216) % 256 >>

\* struct.pack('>I', n): four bytes, most significant first.
PackBE32(n) ==
    << (n \div 16777216) % 256, (n \div 65536) % 256, (n \div 256) % 256, n % 256 >>

\* struct.unpack('>I', b)[0]
UnpackBE32(b) == b[1] * 16777216 + b[2] * 65536 + b[3] * 256 + b[4]

\* A frame without its length prefix.
FrameNoPrefixMutant(data) == data

\* message_with_boundary = length_prefix + data
Frame(data) == PackBE32(Len(data)) \o data

\* The concatenation of a sequence of byte strings.
RECURSIVE Flatten(_)
Flatten(ss) == IF ss = << >> THEN << >> ELSE Head(ss) \o Flatten(Tail(ss))

\* The frames of a sequence of payloads, in order.
Frames(ps) == [i \in 1..Len(ps) |-> Frame(ps[i])]

\* StreamReader.readexactly(n) on a reader whose buffer holds buf and whose
\* end-of-file flag is eof: n bytes when the buffer has them (n = 0 returns
\* the empty string at once), IncompleteReadError (the buffer is cleared into
\* its partial) at end of file, and otherwise it stays suspended.
ReadExactly(buf, eof, n) ==
    IF Len(buf) >= n
    THEN [kind |-> "data", data |-> SubSeq(buf, 1, n), rest |-> SubSeq(buf, n + 1, Len(buf))]
    ELSE IF eof
         THEN [kind |-> "IncompleteReadError", data |-> buf, rest |-> << >>]
         ELSE [kind |-> "blocked", data |-> << >>, rest |-> buf]

\* Where a call of read_length_prefixed_message stands: AtPrefix before or in
\* its first readexactly; a number n >= 0 in its second readexactly, with the
\* prefix already taken from the reader and message_length = n.
AtPrefix == -1

\* A helper that returns what it could read when the stream ends early.
read_length_prefixed_message_ShortReadMutant(buf, eof, at) ==
    LET payload(b, n) ==
          LET message_data == ReadExactly(b, eof, n) IN
          IF message_data.kind = "blocked"
          THEN [kind |-> "blocked", data |-> << >>, rest |-> b, at |-> n]
          ELSE [kind |-> "message", data |-> message_data.data,
                rest |-> message_data.rest, at |-> AtPrefix]
    IN  IF at # AtPrefix
        THEN payload(buf, at)
        ELSE LET length_data == ReadExactly(buf, eof, 4) IN
             IF length_data.kind = "blocked"
             THEN [kind |-> "blocked", data |-> << >>, rest |-> buf, at |-> AtPrefix]
             ELSE IF length_data.kind = "IncompleteReadError"
             THEN [kind |-> "message", data |-> length_data.data, rest |-> << >>,
                   at |-> AtPrefix]
             ELSE payload(length_data.rest, UnpackBE32(length_data.data))

\* read_length_prefixed_message(reader), run from position at until it
\* returns, raises or suspends: the outcome (kind "message" with the payload,
\* "None", "IncompleteReadError" with the partial bytes, or "blocked" when a
\* readexactly has to wait for more bytes), the bytes left in the reader, and
\* the position of a call that is suspended. The prefix is taken from the
\* reader as soon as its four bytes are there, whether or not the payload is.
read_length_prefixed_message(buf, eof, at) ==
    LET payload(b, n) ==
          LET message_data == ReadExactly(b, eof, n) IN
          IF message_data.kind = "data"
          THEN [kind |-> "message", data |-> message_data.data,
                rest |-> message_data.rest, at |-> AtPrefix]
          ELSE IF message_data.kind = "blocked"
               THEN [kind |-> "blocked", data |-> << >>, rest |-> b, at |-> n]
               ELSE [kind |-> "IncompleteReadError", data |-> message_data.data,
                     rest |-> message_data.rest, at |-> AtPrefix]
    IN  IF at # AtPrefix
        THEN payload(buf, at)
        ELSE LET length_data == ReadExactly(buf, eof, 4) IN
             IF length_data.kind = "blocked"
             THEN [kind |-> "blocked", data |-> << >>, rest |-> buf, at |-> AtPrefix]
             ELSE IF length_data.kind = "IncompleteReadError"
             THEN [kind |-> "IncompleteReadError", data |-> length_data.data,
                   rest |-> length_data.rest, at |-> AtPrefix]
             ELSE IF length_data.data = << >>
             THEN [kind |-> "None", data |-> << >>, rest |-> length_data.rest,
                   at |-> AtPrefix]
             ELSE payload(length_data.rest, UnpackBE32(length_data.data))

\* ------------------------------------------------------------------ state
VARIABLES
    enable_firewall,   \* Config.enable_firewall
    tcp_writer,        \* self.tcp_writer: None or the connection it wraps
    tcp_reader,        \* self.tcp_reader: None or the connection it wraps
    udp_transport,     \* self.udp_transport: "None", "open" or "closed"
    connection_task,   \* self._connection_task: "None", or where the task is
    cancel_requested,  \* Task.cancel() was called and not yet delivered
    shutdown,          \* self._shutdown
    conn,              \* each connection's transport: "unopened", "open", "closing"
                       \* (close() called, connection_lost not yet), "closed"
                       \* (lost after close()), "failed" (lost with an error)
    unsent,            \* each connection's write buffer: "none", "some", or
                       \* "paused" (above the high-water mark: drain() waits)
    written,           \* each connection: the byte strings handed to write(), in order
    drains,            \* each connection: _drain_writer tasks not yet finished
    sleep_delay,       \* the duration of the latest asyncio.sleep of the task
    start_pc,          \* start(): "idle", "binding", "done", "raised"
    stop_pc,           \* each stop(): "idle", "await_task", "wait_closed", "done", "raised"
    accepted,          \* history: per connection, the datagrams forwarded to it
    received,          \* history: datagrams delivered so far
    dropped,           \* history: the datagrams (by arrival number) that were not forwarded
    early_stops,       \* history: the stop() calls begun before start() completed
    repeat_stops,      \* history: the stop() calls begun after another had completed
    probed,            \* chunks of peer data the running liveness loop has read
    at_eof,            \* the reader of the running liveness loop was fed end of file
    unhandled,         \* history: the owners ("callback", "drain", "task") an exception escaped
    stream,            \* client side: the bytes buffered in the StreamReader
    stream_eof,        \* client side: the reader is at end of file
    in_flight,         \* client side: segments the peer sent that have not arrived yet
    peer_closed,       \* client side: the peer has closed its end
    sent_log,          \* client side history: payloads whose frames were sent whole
    partial,           \* client side history: the cut frame the peer ended with, if any
    n_read,            \* client side history: messages the helper has returned
    call,              \* client side: whether a call of the helper is suspended, and where
    result,            \* client side: outcome of the latest read_length_prefixed_message
    client_set,        \* fan-out server: the Client Set (live connection handles)
    client_conn,       \* fan-out server: each client connection: "none", "open", "closed"
    client_writes,     \* fan-out server: per client, the byte strings written to it, in order
    flushes,           \* fan-out server: per client, flush tasks not yet completed
    fan_received       \* fan-out server: datagrams delivered so far

gateway_vars == << enable_firewall, tcp_writer, tcp_reader, udp_transport, connection_task,
                   cancel_requested, shutdown, conn, unsent, written, drains, sleep_delay,
                   start_pc, stop_pc, accepted, received, dropped, early_stops, repeat_stops,
                   probed, at_eof, unhandled >>
client_vars == << stream, stream_eof, in_flight, peer_closed, sent_log, partial, n_read, call,
                  result >>
fanout_vars == << client_set, client_conn, client_writes, flushes, fan_received >>
vars == << gateway_vars, client_vars, fanout_vars >>

\* The payload of the k-th datagram the model delivers: 'A', 'BB', 'CCC', ...
\* (every datagram differs from the others in length and in content).
Payload(k) == [i \in 1..k |-> 64 + k]

\* Outcomes of one firewall call: the process is not root, every rule command
\* succeeds, a rule command exits non-zero (CalledProcessError), or a rule
\* command cannot be run at all (subprocess.run raises OSError).
FirewallOutcomes == { "not_root", "ok", "nonzero", "cannot_run" }

\* UDPToTCPGateway.__init__
GatewayInit ==
    /\ enable_firewall \in BOOLEAN
    /\ tcp_writer = None
    /\ tcp_reader = None
    /\ udp_transport = "None"
    /\ connection_task = "None"
    /\ cancel_requested = FALSE
    /\ shutdown = FALSE
    /\ conn = [c \in ConnIds |-> "unopened"]
    /\ unsent = [c \in ConnIds |-> "none"]
    /\ written = [c \in ConnIds |-> << >>]
    /\ drains = [c \in ConnIds |-> 0]
    /\ sleep_delay = 0
    /\ start_pc = "idle"
    /\ stop_pc = [s \in StopIds |-> "idle"]
    /\ accepted = [c \in ConnIds |-> << >>]
    /\ received = 0
    /\ dropped = {}
    /\ early_stops = {}
    /\ repeat_stops = {}
    /\ probed = 0
    /\ at_eof = FALSE
    /\ unhandled = {}

\* A client that has not connected.
ClientIdle ==
    /\ stream = << >>
    /\ stream_eof = FALSE
    /\ in_flight = << >>
    /\ peer_closed = FALSE
    /\ sent_log = << >>
    /\ partial = << >>
    /\ n_read = 0
    /\ call = [suspended |-> FALSE, at |-> AtPrefix]
    /\ result = [kind |-> "none", data |-> << >>]

\* A fan-out server nobody has connected to.
FanOutIdle ==
    /\ client_set = {}
    /\ client_conn = [k \in ClientIds |-> "none"]
    /\ client_writes = [k \in ClientIds |-> << >>]
    /\ flushes = [k \in ClientIds |-> 0]
    /\ fan_received = 0

Init == GatewayInit /\ ClientIdle /\ FanOutIdle

\* StreamWriter.is_closing(): close() was called or the transport failed.
IsClosing(w) == conn[w] # "open"

\* StreamWriter.close() on an open transport: it is closing from now on, and
\* connection_lost is called once its write buffer has been flushed.
Close(w) == [conn EXCEPT ![w] = "closing"]

\* The last reference to the StreamWriter of connection w goes away (the
\* gateway's field was rebound and no _drain_writer task holds the writer):
\* the finaliser of the writer closes a transport that is not closing yet.
ReleaseWriter(w) == IF conn[w] = "open" THEN Close(w) ELSE conn


\* ------------------------------------------------------------ start / stop
\* _setup_firewall and _cleanup_firewall catch CalledProcessError only: the
\* call raises exactly when a rule command cannot be run.
FirewallRaises(outcome) == outcome = "cannot_run"

\* start() up to its first suspension, inside create_datagram_endpoint.
StartBegin ==
    /\ start_pc = "idle"
    /\ \E fw \in FirewallOutcomes :
         start_pc' = IF enable_firewall /\ FirewallRaises(fw) THEN "raised" ELSE "binding"
    /\ UNCHANGED << unsent, enable_firewall, tcp_writer, tcp_reader, udp_transport, connection_task,
                    cancel_requested, shutdown, conn, written, drains, sleep_delay, stop_pc,
                    accepted, received, dropped, early_stops, repeat_stops, probed, at_eof,
                    unhandled, client_vars, fanout_vars >>

\* create_datagram_endpoint returns: the transport is stored and the
\* connection task is created (it has not run yet).
StartBound ==
    /\ start_pc = "binding"
    /\ udp_transport' = "open"
    /\ connection_task' = "pending"
    /\ start_pc' = "done"
    /\ UNCHANGED << unsent, enable_firewall, tcp_writer, tcp_reader, cancel_requested, shutdown, conn,
                    written, drains, sleep_delay, stop_pc, accepted, received, dropped, early_stops,
                    repeat_stops, probed, at_eof, unhandled, client_vars, fanout_vars >>

\* create_datagram_endpoint raises (the bind fails): start() raises.
StartBindFails ==
    /\ start_pc = "binding"
    /\ start_pc' = "raised"
    /\ UNCHANGED << unsent, enable_firewall, tcp_writer, tcp_reader, udp_transport, connection_task,
                    cancel_requested, shutdown, conn, written, drains, sleep_delay, stop_pc,
                    accepted, received, dropped, early_stops, repeat_stops, probed, at_eof,
                    unhandled, client_vars, fanout_vars >>

TaskDone == connection_task \in { "finished", "cancelled" }

\* stop(), "Close UDP transport" to the end: the transport is closed when
\* there is one, then the firewall rules are removed.
StopFinish(s, fw) ==
    /\ udp_transport' = IF udp_transport = "None" THEN "None" ELSE "closed"
    /\ stop_pc' = [stop_pc EXCEPT ![s] =
                     IF enable_firewall /\ FirewallRaises(fw) THEN "raised" ELSE "done"]

\* stop(), "Close TCP connection" and on: an open writer is closed and the
\* coroutine suspends in wait_closed; otherwise it runs to its end.
StopCloseTcp(s, fw) ==
    IF tcp_writer # None /\ ~IsClosing(tcp_writer)
    THEN /\ conn' = Close(tcp_writer)
         /\ stop_pc' = [stop_pc EXCEPT ![s] = "wait_closed"]
         /\ UNCHANGED udp_transport
    ELSE /\ StopFinish(s, fw)
         /\ UNCHANGED conn

\* stop() from its call to its first suspension. The signal handler's task
\* can first run while start() is suspended, never before start() is called.
StopBegin(s) ==
    /\ stop_pc[s] = "idle"
    /\ start_pc # "idle"
    /\ \A t \in StopIds : t < s => stop_pc[t] # "idle"
    /\ shutdown' = TRUE
    /\ early_stops' = IF start_pc = "binding" THEN early_stops \cup {s} ELSE early_stops
    /\ repeat_stops' = IF \E t \in StopIds : stop_pc[t] = "done"
                       THEN repeat_stops \cup {s} ELSE repeat_stops
    /\ IF connection_task # "None" /\ ~TaskDone
       THEN \* cancel() and suspend in "await self._connection_task"
            /\ cancel_requested' = TRUE
            /\ stop_pc' = [stop_pc EXCEPT ![s] = "await_task"]
            /\ UNCHANGED << conn, udp_transport >>
       ELSE \* no task, or a task that is over: nothing to wait for
            /\ \E fw \in FirewallOutcomes : StopCloseTcp(s, fw)
            /\ UNCHANGED cancel_requested
    /\ UNCHANGED << unsent, enable_firewall, tcp_writer, tcp_reader, connection_task, written, drains,
                    sleep_delay, start_pc, accepted, received, dropped, probed, at_eof,
                    unhandled, client_vars, fanout_vars >>

\* "await self._connection_task" returns, or raises the CancelledError that
\* stop() swallows.
StopTaskAwaited(s) ==
    /\ stop_pc[s] = "await_task"
    /\ TaskDone
    /\ \E fw \in FirewallOutcomes : StopCloseTcp(s, fw)
    /\ UNCHANGED << unsent, enable_firewall, tcp_writer, tcp_reader, connection_task, cancel_requested,
                    shutdown, written, drains, sleep_delay, start_pc, accepted, received, dropped,
                    early_stops, repeat_stops, probed, at_eof, unhandled, client_vars, fanout_vars >>

\* StreamWriter.wait_closed() of writer w can complete: connection_lost was
\* called on its transport, after the flush that follows close() or with the
\* error that ended the connection. Pending drain tasks play no part.
CloseCompleted(w) == w # None /\ conn[w] \in { "closed", "failed" }

\* "await self.tcp_writer.wait_closed()" returns or raises (swallowed).
StopWaitClosed(s) ==
    /\ stop_pc[s] = "wait_closed"
    /\ CloseCompleted(tcp_writer)
    /\ \E fw \in FirewallOutcomes : StopFinish(s, fw)
    /\ UNCHANGED << unsent, enable_firewall, tcp_writer, tcp_reader, connection_task, cancel_requested,
                    shutdown, conn, written, drains, sleep_delay, start_pc, accepted, received, dropped,
                    early_stops, repeat_stops, probed, at_eof, unhandled, client_vars, fanout_vars >>

\* --------------------------------------------------------- connection task
\* The delay handed to asyncio.sleep before the next attempt.
RetryDelay == reconnect_delay

\* A loop that does not look at the shutdown flag.
LoopTopIgnoresShutdownMutant == "connecting"

\* The "while not self._shutdown" test at the top of the loop, followed by
\* the call of open_connection.
LoopTop == IF shutdown THEN "finished" ELSE "connecting"

\* The end of one iteration: reader and writer are forgotten, and unless
\* shutdown was requested the task sleeps reconnect_delay.
ResetAndRetry ==
    /\ tcp_reader' = None
    /\ tcp_writer' = None
    /\ IF ~shutdown
       THEN connection_task' = "sleeping" /\ sleep_delay' = RetryDelay
       ELSE connection_task' = LoopTop /\ UNCHANGED sleep_delay

\* "Clean up current connection": a writer that is not closing is closed and
\* the task suspends in wait_closed; otherwise the iteration ends at once.
CleanupConnection ==
    IF tcp_writer # None /\ ~IsClosing(tcp_writer)
    THEN /\ conn' = Close(tcp_writer)
         /\ connection_task' = "wait_closed"
         /\ UNCHANGED << tcp_reader, tcp_writer, sleep_delay >>
    ELSE /\ ResetAndRetry
         /\ UNCHANGED conn

\* The first step of the task.
TaskStart ==
    /\ connection_task = "pending"
    /\ ~cancel_requested
    /\ connection_task' = LoopTop
    /\ UNCHANGED << unsent, enable_firewall, tcp_writer, tcp_reader, udp_transport, cancel_requested,
                    shutdown, conn, written, drains, sleep_delay, start_pc, stop_pc, accepted,
                    received, dropped, early_stops, repeat_stops, probed, at_eof, unhandled,
                    client_vars, fanout_vars >>

\* A probe loop that treats any returned data as the end of the connection.
ProbeAgainNeverMutant(w) == FALSE

\* The inner "while not self.tcp_writer.is_closing() and not self._shutdown"
\* test for writer w: the task reads again, or leaves the loop normally.
ProbeAgain(w) == ~IsClosing(w) /\ ~shutdown

\* open_connection returns a new connection. The assignment rebinds
\* tcp_reader and tcp_writer: a writer still held from before the timeout of
\* a liveness read is released, unless a drain task of it is pending.
ConnectSucceeds ==
    /\ connection_task = "connecting"
    /\ ~cancel_requested
    /\ \E c \in ConnIds :
         /\ conn[c] = "unopened"
         /\ \A d \in ConnIds : d < c => conn[d] # "unopened"
         /\ tcp_reader' = c
         /\ tcp_writer' = c
         /\ probed' = 0
         /\ at_eof' = FALSE
         /\ LET rebound == IF tcp_writer # None /\ drains[tcp_writer] = 0
                           THEN ReleaseWriter(tcp_writer) ELSE conn
            IN  IF ~shutdown
                THEN /\ conn' = [rebound EXCEPT ![c] = "open"]
                     /\ connection_task' = "reading"
                ELSE \* the probe loop is skipped and the new writer is closed
                     /\ conn' = [rebound EXCEPT ![c] = "closing"]
                     /\ connection_task' = "wait_closed"
    /\ UNCHANGED << unsent, enable_firewall, udp_transport, cancel_requested, shutdown, written, drains,
                    sleep_delay, start_pc, stop_pc, accepted, received, dropped, early_stops,
                    repeat_stops, unhandled, client_vars, fanout_vars >>

\* open_connection raises: "except Exception" logs, then the clean-up runs
\* (on the writer of the previous connection, when one is still held).
ConnectFails ==
    /\ connection_task = "connecting"
    /\ ~cancel_requested
    /\ CleanupConnection
    /\ UNCHANGED << unsent, enable_firewall, udp_transport, cancel_requested, shutdown, written, drains,
                    start_pc, stop_pc, accepted, received, dropped, early_stops,
                    repeat_stops, probed, at_eof, unhandled, client_vars, fanout_vars >>

\* What StreamReader.read(1024) returns: a chunk of bytes the peer sent, or
\* the empty string of a reader that was fed end of file.
ReadResults == { "data", "eof" }

\* The reader the liveness loop reads is at end of file: the peer has closed
\* its sending side (the transport stays open for writing), or the transport
\* was lost after a close().
ReaderAtEof == at_eof \/ conn[tcp_reader] = "closed"

\* The liveness read returns: its value is bound to nothing, and the loop
\* test decides between the next read and the clean-up. A cancellation
\* requested once the read has completed is dropped by wait_for, which
\* returns the result of the read instead of raising CancelledError.
ReadReturns ==
    /\ connection_task = "reading"
    /\ \E got \in ReadResults :
         /\ got = "data" => ~at_eof /\ probed < MaxPeerData
         /\ got = "eof" => ReaderAtEof
         /\ cancel_requested' = FALSE
         /\ IF ProbeAgain(tcp_writer)
            THEN /\ probed' = IF got = "data" THEN probed + 1 ELSE probed
                 /\ UNCHANGED << tcp_reader, tcp_writer, conn, connection_task, sleep_delay,
                                 at_eof >>
            ELSE /\ probed' = 0
                 /\ at_eof' = FALSE
                 /\ CleanupConnection
    /\ UNCHANGED << unsent, enable_firewall, udp_transport, shutdown, written, drains,
                    start_pc, stop_pc, accepted, received, dropped, early_stops, repeat_stops,
                    unhandled, client_vars, fanout_vars >>

\* The peer closes its sending side: the reader of the liveness loop is fed
\* end of file, and the transport stays open.
PeerHalfCloses ==
    /\ connection_task = "reading"
    /\ conn[tcp_reader] = "open"
    /\ ~at_eof
    /\ at_eof' = TRUE
    /\ UNCHANGED << unsent, enable_firewall, tcp_writer, tcp_reader, udp_transport,
                    connection_task, cancel_requested, shutdown, conn, written, drains,
                    sleep_delay, start_pc, stop_pc, accepted, received, dropped, early_stops,
                    repeat_stops, probed, unhandled, client_vars, fanout_vars >>

\* wait_for raises TimeoutError: "continue" goes to the top of the outer
\* loop, the only loop that encloses the handler.
ReadTimesOut ==
    /\ connection_task = "reading"
    /\ ~cancel_requested
    /\ connection_task' = LoopTop
    /\ probed' = 0
    /\ at_eof' = FALSE
    /\ UNCHANGED << unsent, enable_firewall, tcp_writer, tcp_reader, udp_transport, cancel_requested,
                    shutdown, conn, written, drains, sleep_delay, start_pc, stop_pc, accepted,
                    received, dropped, early_stops, repeat_stops, unhandled, client_vars, fanout_vars >>

\* The liveness read, suspended for data, is woken with the exception of a
\* failed connection: "break" leaves the outer loop, and the coroutine
\* returns. (A cancellation requested once the read has raised is dropped by
\* wait_for. Reads of a reader at end of file are never suspended: the loop
\* test finds the writer closing before a read can raise.)
ReadRaises ==
    /\ connection_task = "reading"
    /\ conn[tcp_reader] = "failed"
    /\ ~at_eof
    /\ connection_task' = "finished"
    /\ cancel_requested' = FALSE
    /\ probed' = 0
    /\ at_eof' = FALSE
    /\ UNCHANGED << unsent, enable_firewall, tcp_writer, tcp_reader, udp_transport,
                    shutdown, conn, written, drains, sleep_delay, start_pc, stop_pc, accepted,
                    received, dropped, early_stops, repeat_stops, unhandled, client_vars, fanout_vars >>

\* wait_closed of the clean-up returns or raises (swallowed).
WaitClosedDone ==
    /\ connection_task = "wait_closed"
    /\ ~cancel_requested
    /\ CloseCompleted(tcp_writer)
    /\ ResetAndRetry
    /\ UNCHANGED << unsent, enable_firewall, udp_transport, cancel_requested, shutdown, conn, written,
                    drains, start_pc, stop_pc, accepted, received, dropped, early_stops,
                    repeat_stops, probed, at_eof, unhandled, client_vars, fanout_vars >>

\* asyncio.sleep(reconnect_delay) returns.
SleepDone ==
    /\ connection_task = "sleeping"
    /\ ~cancel_requested
    /\ connection_task' = LoopTop
    /\ UNCHANGED << unsent, enable_firewall, tcp_writer, tcp_reader, udp_transport, cancel_requested,
                    shutdown, conn, written, drains, sleep_delay, start_pc, stop_pc, accepted,
                    received, dropped, early_stops, repeat_stops, probed, at_eof, unhandled,
                    client_vars, fanout_vars >>

\* The task is resumed with CancelledError. Inside the outer try (connecting,
\* reading) "except asyncio.CancelledError: break" ends the coroutine
\* normally; in wait_closed and in sleep (and before the first step) the
\* error leaves the coroutine and the task ends cancelled. A read on a reader
\* at end of file completes at once, so its cancellation is always dropped
\* (ReadReturns) and never raised.
TaskCancelled ==
    /\ cancel_requested
    /\ connection_task \in { "pending", "connecting", "reading", "wait_closed", "sleeping" }
    /\ connection_task = "reading" => ~ReaderAtEof
    /\ connection_task' = IF connection_task \in { "connecting", "reading" }
                          THEN "finished" ELSE "cancelled"
    /\ cancel_requested' = FALSE
    /\ probed' = 0
    /\ at_eof' = FALSE
    /\ UNCHANGED << unsent, enable_firewall, tcp_writer, tcp_reader, udp_transport, shutdown,
                    conn, written, drains, sleep_delay, start_pc, stop_pc, accepted, received,
                    dropped, early_stops, repeat_stops, unhandled, client_vars, fanout_vars >>

\* ---------------------------------------------------------- TCP transports
\* The transport of a connection fails (a reset by the peer, a fatal send
\* error), whether or not the gateway still holds it: its buffer is dropped,
\* it is closing from now on and connection_lost is called with the error.
TransportError(c) ==
    /\ conn[c] \in { "open", "closing" }
    /\ conn' = [conn EXCEPT ![c] = "failed"]
    /\ unsent' = [unsent EXCEPT ![c] = "none"]
    /\ UNCHANGED << enable_firewall, tcp_writer, tcp_reader, udp_transport, connection_task,
                    cancel_requested, shutdown, written, drains, sleep_delay, start_pc, stop_pc,
                    accepted, received, dropped, early_stops, repeat_stops, probed, at_eof,
                    unhandled, client_vars, fanout_vars >>

\* A transport that was closed and has nothing left to send calls
\* connection_lost.
ConnectionLost(c) ==
    /\ conn[c] = "closing"
    /\ unsent[c] = "none"
    /\ conn' = [conn EXCEPT ![c] = "closed"]
    /\ UNCHANGED << unsent, enable_firewall, tcp_writer, tcp_reader, udp_transport,
                    connection_task, cancel_requested, shutdown, written, drains, sleep_delay,
                    start_pc, stop_pc, accepted, received, dropped, early_stops, repeat_stops,
                    probed, at_eof, unhandled, client_vars, fanout_vars >>

\* The levels below a level of the write buffer.
Lower(level) == IF level = "paused" THEN { "some", "none" }
                ELSE IF level = "some" THEN { "none" } ELSE {}

\* The TCP endpoint takes bytes: the write buffer of the transport shrinks.
PeerTakes(c) ==
    /\ conn[c] \in { "open", "closing" }
    /\ \E level \in Lower(unsent[c]) : unsent' = [unsent EXCEPT ![c] = level]
    /\ UNCHANGED << enable_firewall, tcp_writer, tcp_reader, udp_transport, connection_task,
                    cancel_requested, shutdown, conn, written, drains, sleep_delay, start_pc,
                    stop_pc, accepted, received, dropped, early_stops, repeat_stops, probed,
                    at_eof, unhandled, client_vars, fanout_vars >>

\* ------------------------------------------------------- datagram callback
\* A test that forgets is_closing().
NoConnectionNoneOnlyMutant == tcp_writer = None

\* The test that drops a datagram: no writer, or a writer that is closing.
NoConnection == tcp_writer = None \/ IsClosing(tcp_writer)

\* How the call tcp_writer.write(frame) ends.
WriteOutcomes == { "returns", "raises" }

\* The write buffer after one more frame was handed to the transport: an
\* empty buffer stays empty when the socket takes the whole frame at once; a
\* single frame (at most 65 511 bytes) stays below the high-water mark
\* (64 KiB), frames on top of unsent bytes may pass it.
AfterWrite(level) == IF level = "none" THEN { "none", "some" }
                     ELSE IF level = "some" THEN { "some", "paused" } ELSE { "paused" }

\* UDPProtocol.datagram_received -> handle_udp_message(data, addr): the frame
\* is handed to the writer in one write and a _drain_writer task is created
\* without being awaited; a write that raises is logged by "except Exception"
\* (no drain task then), so the callback returns normally in every case.
HandleUdpMessage(data) ==
    /\ udp_transport = "open"
    /\ received < MaxDatagrams
    /\ received' = received + 1
    /\ IF NoConnection
       THEN /\ dropped' = dropped \cup { received + 1 }
            /\ UNCHANGED << written, drains, accepted, unsent >>
       ELSE /\ written' = [written EXCEPT ![tcp_writer] = Append(@, Frame(data))]
            /\ accepted' = [accepted EXCEPT ![tcp_writer] = Append(@, data)]
            /\ \E wr \in WriteOutcomes :
                 IF wr = "returns"
                 THEN /\ drains' = [drains EXCEPT ![tcp_writer] = @ + 1]
                      /\ \E level \in AfterWrite(unsent[tcp_writer]) :
                           unsent' = [unsent EXCEPT ![tcp_writer] = level]
                 ELSE UNCHANGED << drains, unsent >>
            /\ UNCHANGED dropped
    /\ UNCHANGED << enable_firewall, tcp_writer, tcp_reader, udp_transport, connection_task,
                    cancel_requested, shutdown, conn, sleep_delay, start_pc, stop_pc,
                    early_stops, repeat_stops, probed, at_eof, unhandled, client_vars, fanout_vars >>

\* _drain_writer(writer): drain() returns once the write buffer is below the
\* high-water mark, or raises once the connection is lost (logged). The task
\* ends and lets go of the writer: the last drain of a writer the gateway no
\* longer holds releases it.
DrainWriterDone(c) ==
    /\ drains[c] > 0
    /\ unsent[c] # "paused" \/ conn[c] \in { "closed", "failed" }
    /\ drains' = [drains EXCEPT ![c] = @ - 1]
    /\ conn' = IF c # tcp_writer /\ drains[c] = 1 THEN ReleaseWriter(c) ELSE conn
    /\ UNCHANGED << unsent, enable_firewall, tcp_writer, tcp_reader, udp_transport,
                    connection_task, cancel_requested, shutdown, written, sleep_delay,
                    start_pc, stop_pc, accepted, received, dropped, early_stops, repeat_stops,
                    probed, at_eof, unhandled, client_vars, fanout_vars >>

GatewayNext ==
    \/ StartBegin
    \/ StartBound
    \/ StartBindFails
    \/ \E s \in StopIds : StopBegin(s)
    \/ \E s \in StopIds : StopTaskAwaited(s)
    \/ \E s \in StopIds : StopWaitClosed(s)
    \/ TaskStart
    \/ ConnectSucceeds
    \/ ConnectFails
    \/ ReadReturns
    \/ PeerHalfCloses
    \/ ReadTimesOut
    \/ ReadRaises
    \/ WaitClosedDone
    \/ SleepDone
    \/ TaskCancelled
    \/ \E c \in ConnIds : TransportError(c)
    \/ \E c \in ConnIds : ConnectionLost(c)
    \/ \E c \in ConnIds : PeerTakes(c)
    \/ \E data \in { Payload(received + 1) } : HandleUdpMessage(data)
    \/ \E c \in ConnIds : DrainWriterDone(c)

Next == GatewayNext

Spec == Init /\ [][Next]_vars

\* ------------------------------------------- a client of the framed stream
\* A payload of n bytes.
MakePayload(n) == [i \in 1..n |-> (i * 7) % 256]

\* The largest payload a UDP datagram carries.
LargestPayload == MakePayload(65507)

\* Payloads the sending side frames: empty, one byte, a length that needs the
\* second length byte, and the largest one.
ClientPayloads == { MakePayload(n) : n \in { 0, 1, 256 } } \cup { LargestPayload }

\* Where TCP may split the frame of payload p into two segments (0: it
\* arrives whole): inside the prefix, after it, inside the payload.
SplitPoints(p) == { k \in { 0, 2, 4, 5 } : k < Len(p) + 4 }

\* Where a connection that dies mid-frame may cut the frame of payload p:
\* inside the prefix, right after it, inside the payload, before its last byte.
CutPoints(p) == { k \in { 1, 2, 3, 4, 5, Len(p) + 3 } : 0 < k /\ k < Len(p) + 4 }

Segments(f, k) == IF k = 0 THEN << f >> ELSE << SubSeq(f, 1, k), SubSeq(f, k + 1, Len(f)) >>

\* The largest payload is framed once, whole and alone in its stream, which
\* keeps the runs with 65 511-byte streams few.
LargestSent == sent_log # << >> /\ Len(sent_log[1]) > 256

\* The gateway side writes the frame of one more payload.
PeerSends(p, k) ==
    /\ ~peer_closed
    /\ Len(sent_log) < MaxFrames
    /\ Len(p) > 256 => k = 0 /\ sent_log = << >>
    /\ ~LargestSent
    /\ in_flight' = in_flight \o Segments(Frame(p), k)
    /\ sent_log' = Append(sent_log, p)
    /\ UNCHANGED << stream, stream_eof, peer_closed, partial, n_read, call, result, gateway_vars, fanout_vars >>

\* The connection ends after only the first k bytes of a frame were sent.
PeerSendsCut(p, k) ==
    /\ ~peer_closed
    /\ Len(p) <= 256 /\ ~LargestSent
    /\ in_flight' = Append(in_flight, SubSeq(Frame(p), 1, k))
    /\ partial' = SubSeq(Frame(p), 1, k)
    /\ peer_closed' = TRUE
    /\ UNCHANGED << stream, stream_eof, sent_log, n_read, call, result, gateway_vars, fanout_vars >>

\* The connection ends at a frame boundary.
PeerCloses ==
    /\ ~peer_closed
    /\ peer_closed' = TRUE
    /\ UNCHANGED << stream, stream_eof, in_flight, sent_log, partial, n_read, call, result,
                    gateway_vars, fanout_vars >>

\* StreamReader.feed_data: the next segment arrives.
FeedData ==
    /\ in_flight # << >>
    /\ stream' = stream \o Head(in_flight)
    /\ in_flight' = Tail(in_flight)
    /\ UNCHANGED << stream_eof, peer_closed, sent_log, partial, n_read, call, result, gateway_vars, fanout_vars >>

\* StreamReader.feed_eof: the end of the stream arrives, after all its bytes.
FeedEof ==
    /\ peer_closed
    /\ in_flight = << >>
    /\ ~stream_eof
    /\ stream_eof' = TRUE
    /\ UNCHANGED << stream, in_flight, peer_closed, sent_log, partial, n_read, call, result,
                    gateway_vars, fanout_vars >>

\* read_length_prefixed_message runs: a new call, or the call in progress
\* resumed by feed_data or feed_eof, up to its return, its raise or its next
\* suspension in a readexactly.
ReadMessage ==
    LET r == read_length_prefixed_message(stream, stream_eof, call.at) IN
    /\ stream' = r.rest
    /\ IF r.kind = "blocked"
       THEN /\ call' = [suspended |-> TRUE, at |-> r.at]
            /\ UNCHANGED << result, n_read >>
       ELSE /\ call' = [suspended |-> FALSE, at |-> AtPrefix]
            /\ result' = [kind |-> r.kind, data |-> r.data]
            /\ n_read' = IF r.kind = "message" THEN n_read + 1 ELSE n_read
    /\ UNCHANGED << stream_eof, in_flight, peer_closed, sent_log, partial, gateway_vars, fanout_vars >>

ClientInit == GatewayInit /\ enable_firewall = FALSE /\ ClientIdle /\ FanOutIdle

ClientNext ==
    \/ \E p \in ClientPayloads : \E k \in SplitPoints(p) : PeerSends(p, k)
    \/ \E p \in ClientPayloads : \E k \in CutPoints(p) : PeerSendsCut(p, k)
    \/ PeerCloses
    \/ FeedData
    \/ FeedEof
    \/ ReadMessage

ClientSpec == ClientInit /\ [][ClientNext]_vars

\* A read of a reader at end of file: it returns without being suspended.
ReadReturnsAtEof == ReadReturns /\ ReaderAtEof

\* The event loop resumes a task or a stop() whose read at end of file,
\* awaited close, sleep or cancellation is due and runs the callbacks it has
\* scheduled. Nothing is assumed of the TCP endpoint: it may never take the
\* bytes buffered for it, so no paused drain is bound to end.
StalledDrainSpec ==
    /\ Spec
    /\ WF_vars(ReadReturnsAtEof)
    /\ WF_vars(WaitClosedDone)
    /\ WF_vars(SleepDone)
    /\ WF_vars(TaskCancelled)
    /\ \A c \in ConnIds : WF_vars(ConnectionLost(c)) /\ WF_vars(DrainWriterDone(c))
    /\ \A s \in StopIds : WF_vars(StopTaskAwaited(s)) /\ WF_vars(StopWaitClosed(s))

\* ------------------------------------- inbound fan-out server (section 4.4)
\* What is written to a client for a datagram, with added framing.
FanOutBytesFramedMutant(data) == Frame(data)

\* What is written to a client for a datagram: the raw payload, no prefix.
FanOutBytes(data) == data

\* The members a datagram is written to: the snapshot of the Client Set.
FanOutSnapshot == client_set

\* A TCP client is accepted: it is added to the Client Set.
ClientAccepted(k) ==
    /\ client_conn[k] = "none"
    /\ \A j \in ClientIds : j < k => client_conn[j] # "none"
    /\ client_conn' = [client_conn EXCEPT ![k] = "open"]
    /\ client_set' = client_set \cup { k }
    /\ UNCHANGED << client_writes, flushes, fan_received, gateway_vars, client_vars >>

\* The watch task of client k sees a read error or a zero-length read: the
\* connection is removed from the Client Set and closed.
ClientWatchEnds(k) ==
    /\ k \in client_set
    /\ client_set' = client_set \ { k }
    /\ client_conn' = [client_conn EXCEPT ![k] = "closed"]
    /\ UNCHANGED << client_writes, flushes, fan_received, gateway_vars, client_vars >>

\* A datagram arrives: for every member of the snapshot one unframed write
\* is issued and its flush is scheduled without being awaited; with an
\* empty Client Set the datagram is dropped with no side effect.
FanOutDatagram(data) ==
    /\ fan_received < MaxDatagrams
    /\ fan_received' = fan_received + 1
    /\ client_writes' = [k \in ClientIds |->
                           IF k \in FanOutSnapshot
                           THEN Append(client_writes[k], FanOutBytes(data))
                           ELSE client_writes[k]]
    /\ flushes' = [k \in ClientIds |->
                     IF k \in FanOutSnapshot THEN flushes[k] + 1 ELSE flushes[k]]
    /\ UNCHANGED << client_set, client_conn, gateway_vars, client_vars >>

\* A flush of client k completes.
FlushDone(k) ==
    /\ flushes[k] > 0
    /\ flushes' = [flushes EXCEPT ![k] = @ - 1]
    /\ UNCHANGED << client_set, client_conn, client_writes, fan_received, gateway_vars,
                    client_vars >>

\* A write or flush of client k fails: the client is removed from the
\* Client Set and closed.
FlushFails(k) ==
    /\ flushes[k] > 0
    /\ flushes' = [flushes EXCEPT ![k] = @ - 1]
    /\ client_set' = client_set \ { k }
    /\ client_conn' = [client_conn EXCEPT ![k] = IF @ = "open" THEN "closed" ELSE @]
    /\ UNCHANGED << client_writes, fan_received, gateway_vars, client_vars >>

FanOutInit == GatewayInit /\ enable_firewall = FALSE /\ ClientIdle /\ FanOutIdle

FanOutNext ==
    \/ \E k \in ClientIds : ClientAccepted(k)
    \/ \E k \in ClientIds : ClientWatchEnds(k)
    \/ \E data \in { Payload(fan_received + 1) } : FanOutDatagram(data)
    \/ \E k \in ClientIds : FlushDone(k)
    \/ \E k \in ClientIds : FlushFails(k)

\* The fan-out server alone; no flush is bound to complete.
FanOutSpec == FanOutInit /\ [][FanOutNext]_vars

\* ------------------------------------------------------------------ claims
\* The four-byte big-endian number at the head of a byte string.
PrefixValue(w) == w[1] * 16777216 + w[2] * 65536 + w[3] * 256 + w[4]

\* C1: the byte strings handed to a connection are, write for write and in
\* receive order, the frames of the datagrams that found it open: each write
\* is one whole frame, four bytes holding the payload length (big-endian)
\* and then the payload.
C1_FramesInReceiveOrder ==
    \A c \in ConnIds :
      /\ Len(written[c]) = Len(accepted[c])
      /\ \A i \in 1..Len(written[c]) :
           LET w == written[c][i]
               d == accepted[c][i]
           IN  /\ Len(w) = Len(d) + 4
               /\ PrefixValue(w) = Len(d)
               /\ SubSeq(w, 5, Len(w)) = d

\* C1 witness: one connection was handed the frames of two different
\* datagrams, 'A' and then 'BB'.
C1_Witness ==
    \E c \in ConnIds :
      written[c] = << << 0, 0, 0, 1, 65 >>, << 0, 0, 0, 2, 66, 66 >> >>

\* C2: the connection task ends only when shutdown was requested: as long
\* as stop() is not called the reconnect loop is still running.
C2_ReconnectLoopNeverStops ==
    connection_task = "finished" => shutdown

\* C3: a failed connect attempt is followed by the clean-up and one sleep of
\* exactly reconnect_delay, the sleep ends in a new connect attempt, and so
\* from the clean-up or the sleep the task always reaches the next attempt
\* unless shutdown is requested.
C3_RetryAfterConnectFailure ==
    /\ [][ConnectFails => connection_task' \in { "wait_closed", "sleeping" }]_vars
    /\ [][connection_task # "sleeping" /\ connection_task' = "sleeping"
            => sleep_delay' = reconnect_delay]_vars
    /\ [][connection_task = "sleeping" /\ connection_task' # "sleeping"
            => connection_task' = "connecting" \/ shutdown]_vars
    /\ [](connection_task \in { "wait_closed", "sleeping" }
            => <>(connection_task = "connecting" \/ shutdown))

\* The payloads of the frames handed to connection c.
WrittenPayloads(c) == { SubSeq(written[c][i], 5, Len(written[c][i])) : i \in 1..Len(written[c]) }

\* C4: a datagram that arrives while there is no writer, or a closing one,
\* changes nothing in the gateway (no write, no drain task, no field), and
\* its payload is never handed to any connection, then or later.
C4_DroppedDuringOutage ==
    /\ [][received' = received + 1 /\ (tcp_writer = None \/ conn[tcp_writer] # "open")
            => /\ dropped' = dropped \cup { received' }
               /\ UNCHANGED << tcp_writer, tcp_reader, udp_transport, connection_task,
                               cancel_requested, shutdown, conn, written, drains,
                               sleep_delay, start_pc, stop_pc >>]_vars
    /\ [](\A k \in dropped : \A c \in ConnIds : Payload(k) \notin WrittenPayloads(c))

\* C4 witness: the first datagram was dropped while the first connection was
\* closing, and the next connection carries only the datagram that came
\* after it was opened.
C4_Witness ==
    /\ dropped = { 1 }
    /\ conn[1] = "failed"
    /\ written[1] = << >>
    /\ WrittenPayloads(2) = { Payload(2) }

\* No TCP connection the manager opened is still open.
NoTcpOpen == \A c \in ConnIds : conn[c] # "open"

\* C6: when a stop() that was called after start() had completed has
\* returned, the connection task is over, the UDP transport is closed and
\* every TCP connection the manager ever opened is closed.
C6_StopReleasesEverything ==
    \A s \in StopIds :
      (stop_pc[s] = "done" /\ s \notin early_stops /\ start_pc = "done")
        => TaskDone /\ udp_transport = "closed" /\ NoTcpOpen

\* C7: with start() completed before any stop(), a stop() called after an
\* earlier stop() has completed does not raise.
C7_SecondStopDoesNotRaise ==
    \A s \in repeat_stops :
      (early_stops = {} /\ start_pc = "done") => stop_pc[s] # "raised"

\* C8: when a stop() that ran while start() was still suspended has
\* returned and start() has finished too, no socket is open: neither the UDP
\* transport nor a TCP connection.
C8_StopBeforeStartCompletes ==
    \A s \in early_stops :
      (stop_pc[s] = "done" /\ start_pc \in { "done", "raised" })
        => udp_transport # "open" /\ NoTcpOpen

\* Every payload whose frame was sent whole and has not been returned yet.
Unread == SubSeq(sent_log, n_read + 1, Len(sent_log))

\* No call of the helper has failed so far.
NoReadFailed == result.kind \in { "none", "message" }

\* The bytes of the next frame a suspended call has already taken.
Taken == IF call.at = AtPrefix THEN 0 ELSE 4

\* C5: the helper inverts the framing of handle_udp_message. Every message
\* it has returned is the next payload that was framed, in order; what is
\* left in the stream is exactly the frames not read yet (less the prefix a
\* suspended call has taken, whose value is the length of the next payload);
\* and whenever the rest of the next frame is in the reader, the helper
\* returns exactly its payload and leaves exactly the bytes after that frame.
C5_FrameRoundTrip ==
    /\ n_read <= Len(sent_log)
    /\ result.kind = "message" => n_read >= 1 /\ result.data = sent_log[n_read]
    /\ NoReadFailed =>
         LET all == Flatten(Frames(Unread)) \o partial
         IN  stream \o Flatten(in_flight) = SubSeq(all, Taken + 1, Len(all))
    /\ (NoReadFailed /\ Taken = 4 /\ Unread # << >>) => call.at = Len(Head(Unread))
    /\ (NoReadFailed /\ Unread # << >> /\ Len(stream) + Taken >= Len(Head(Unread)) + 4) =>
         LET r == read_length_prefixed_message(stream, stream_eof, call.at)
         IN  /\ r.kind = "message"
             /\ r.data = Head(Unread)
             /\ r.rest = SubSeq(stream, Len(Head(Unread)) + 5 - Taken, Len(stream))

\* C5 witness: after a 256-byte payload the second call returned the second
\* message, the empty payload.
C5_Witness ==
    /\ n_read = 2
    /\ Len(sent_log[1]) = 256
    /\ sent_log[2] = << >>
    /\ result = [kind |-> "message", data |-> << >>]

\* C9: on a stream of whole frames that ends at a frame boundary the helper
\* does not raise: the call at the end of the stream returns None.
C9_NoneAtEndOfStream ==
    (stream_eof /\ partial = << >>) => result.kind # "IncompleteReadError"

\* C10: a call made when the stream has ended inside the next frame (within
\* its length prefix, or before the last byte of its payload) raises
\* IncompleteReadError and returns no message.
C10_ShortReadRaises ==
    [][(ReadMessage /\ stream_eof /\ Unread = << >> /\ partial # << >>)
          => result'.kind = "IncompleteReadError" /\ n_read' = n_read]_vars

\* C10 witness: the stream ended inside a payload, after one whole frame
\* that was read, and the call at the cut frame raised.
C10_Witness ==
    /\ stream_eof
    /\ Len(partial) > 4
    /\ n_read = 1
    /\ result.kind = "IncompleteReadError"

\* C11: firewall calls are best-effort. Whatever the firewall call does,
\* start() goes on from the firewall set-up to binding the UDP socket, and
\* no stop() raises.
C11_FirewallBestEffort ==
    [][/\ (start_pc = "idle" /\ start_pc' # "idle") => start_pc' = "binding"
       /\ \A s \in StopIds : stop_pc'[s] # "raised"]_vars

\* C12: fan-out. A datagram received with N clients in the Client Set
\* triggers exactly N writes, one appended to each member's writes and none
\* to any other connection, each carrying exactly the payload with no length
\* prefix, whatever flushes of earlier writes are still not completed.
C12_UnframedFanOut ==
    [][fan_received' = fan_received + 1
         => \A k \in ClientIds :
              client_writes'[k] = IF k \in client_set
                                   THEN Append(client_writes[k], Payload(fan_received'))
                                   ELSE client_writes[k]]_vars

\* C12 witness: two clients are in the Client Set; no flush of client 1 has
\* completed, and client 2 was written both payloads and has flushed them.
C12_Witness ==
    /\ client_set = { 1, 2 }
    /\ flushes = << 2, 0 >>
    /\ client_writes[1] = << << 65 >>, << 66, 66 >> >>
    /\ client_writes[2] = << << 65 >>, << 66, 66 >> >>

\* C13: a liveness read that times out leaves the manager connected on the
\* same connection: reader and writer are kept, no connection is closed or
\* opened, and the task issues the next read.
C13_ProbeTimeoutKeepsConnection ==
    [][ReadTimesOut => /\ connection_task' = "reading"
                       /\ UNCHANGED << tcp_reader, tcp_writer, conn >>]_vars

\* C14: a liveness read that raises closes the connection and returns the
\* manager to Disconnected: the writer is closed, tcp_reader and tcp_writer
\* are None again, and the task goes on to its next connect attempt.
C14_ReadErrorDisconnects ==
    [][ReadRaises => /\ conn'[tcp_writer] \in { "closed", "failed" }
                     /\ tcp_reader' = None
                     /\ tcp_writer' = None
                     /\ connection_task' \in { "wait_closed", "sleeping" }]_vars

\* C15: at most one connection the manager opened is open, it is the one
\* tcp_writer refers to, and while the manager attempts a connect the
\* connection it held before is closed.
C15_SingleOwnedConnection ==
    /\ Cardinality({ c \in ConnIds : conn[c] = "open" }) <= 1
    /\ \A c \in ConnIds : conn[c] = "open" => tcp_writer = c
    /\ connection_task = "connecting" => NoTcpOpen

\* Some stop() has returned.
StopReturned == \E s \in StopIds : stop_pc[s] = "done"

\* C16: once a stop() has returned the task is never in a connect attempt
\* nor in a reconnect sleep, and no connection is opened any more.
C16_NoConnectAfterShutdown ==
    /\ [](StopReturned => connection_task \notin { "connecting", "sleeping" })
    /\ [][StopReturned => \A c \in ConnIds : conn[c] = "unopened" => conn'[c] = "unopened"]_vars

\* C16 witness: stop() ran to its end while start() was binding; the task
\* created afterwards ended without a connect attempt.
C16_Witness ==
    /\ early_stops # {}
    /\ StopReturned
    /\ start_pc = "done"
    /\ connection_task = "finished"
    /\ \A c \in ConnIds : conn[c] = "unopened"

\* C17: when the liveness read returns on a connection that is open, and no
\* shutdown was requested, what it returned is dropped: nothing is written,
\* no drain is created, reader, writer and connections stay as they are, and
\* the task reads again.
C17_ProbeDataIgnored ==
    [][(ReadReturns /\ conn[tcp_reader] = "open" /\ ~shutdown)
         => /\ connection_task' = "reading"
            /\ UNCHANGED << tcp_reader, tcp_writer, conn, unsent, written, drains, accepted,
                            received, dropped, udp_transport, shutdown, cancel_requested,
                            sleep_delay, start_pc, stop_pc >>]_vars

\* C17 witness: the peer's data was read and the task still probes the same
\* open connection, to which nothing was written.
C17_Witness ==
    /\ probed = MaxPeerData
    /\ connection_task = "reading"
    /\ tcp_reader = 1 /\ tcp_writer = 1
    /\ conn[1] = "open"
    /\ written[1] = << >>

\* C18: forwarding never waits for the peer. With drains that never end, a
\* datagram that finds the writer open is still framed and written, after
\* the frames before it; every stop() that is waiting returns; and the
\* connection task does not stay in a wait for a close.
C18_ForwardingNeverWaits ==
    /\ [][(received' = received + 1 /\ tcp_writer # None /\ conn[tcp_writer] = "open")
            => SubSeq(written'[tcp_writer], 1, Len(written[tcp_writer])) = written[tcp_writer]
               /\ Len(written'[tcp_writer]) = Len(written[tcp_writer]) + 1]_vars
    /\ \A s \in StopIds :
         stop_pc[s] \in { "await_task", "wait_closed" } ~> stop_pc[s] \in { "done", "raised" }
    /\ connection_task = "wait_closed" ~> connection_task # "wait_closed"

\* C19: no failure escapes its owner: no exception leaves handle_udp_message,
\* a drain task or the connection task, and the connection task is over only
\* after cancellation or shutdown.
C19_FailuresContained ==
    /\ unhandled = {}
    /\ TaskDone => shutdown
====
